---- MODULE Spec2Model ----
(***************************************************************************)
(* The two specialization generators of generate/: generate_js.py (the     *)
(* Tree Form, a JSON document) and generate_mm.py (the Graph Form, a       *)
(* mind-map).  Both are event sinks of one depth-first walk over a         *)
(* specialization tree.  Text is modelled as a sequence of one-character   *)
(* strings so that split / join / replace are computed, not assumed.       *)
(***************************************************************************)
EXTENDS Integers, Sequences, FiniteSets, TLC

VARIABLES
    model,      \* the specialization handed to the generator (read only): its
                \* nodes, the root's change history, and whether the node
                \* classes expose a url attribute
    gen,        \* which generator this run drives: "js" or "mm"
    pc,         \* index into Events(model) of the next event to dispatch
    status,     \* "running" | "parsed" | "failed" (an exception left run())
    run,        \* number of the current walk over the same Generator instance
    maps,       \* generate_js.Generator._maps : node identity -> fragment
    mmap,       \* generate_mm.Generator.mmap  : index of the map element, 0 = None
    nodes,      \* generate_mm.Generator.nodes : node identity -> element index
    elems,      \* the ElementTree heap: every Element created so far
    outputs     \* what get_output returned, one entry per completed walk

vars == <<model, gen, pc, status, run, maps, mmap, nodes, elems, outputs>>

-----------------------------------------------------------------------------
(* Bounds of the model.                                                    *)

MaxNodes   == 4     \* structural nodes of a tree, root included
MaxChoices == 2     \* choices of an enumeration
MaxChanges == 2     \* entries of root.change_history
MaxRuns    == 2     \* walks driven over one Generator instance
MaxRerunNodes == 3  \* nodes of a tree that is walked more than once
MaxSegs    == 5     \* segments of a property id drawn for the label check

-----------------------------------------------------------------------------
(* Text helpers.                                                           *)

Digit(i) == CASE i = 0 -> "0" [] i = 1 -> "1" [] i = 2 -> "2" [] i = 3 -> "3"
              [] i = 4 -> "4" [] i = 5 -> "5" [] i = 6 -> "6" [] i = 7 -> "7"
              [] i = 8 -> "8" [] OTHER -> "9"

\* str.split(sep) for a one-character separator: always at least one segment.
RECURSIVE SplitFrom(_, _, _, _)
SplitFrom(s, sep, i, cur) ==
    IF i > Len(s) THEN <<cur>>
    ELSE IF s[i] = sep THEN <<cur>> \o SplitFrom(s, sep, i + 1, <<>>)
    ELSE SplitFrom(s, sep, i + 1, Append(cur, s[i]))

Split(s, sep) == SplitFrom(s, sep, 1, <<>>)

\* sep.join(parts)
RECURSIVE Join(_, _)
Join(parts, sep) ==
    IF Len(parts) = 0 THEN <<>>
    ELSE IF Len(parts) = 1 THEN parts[1]
    ELSE parts[1] \o sep \o Join(Tail(parts), sep)

\* Mutant of DropThree: list[2:]
DropTwo(xs) == IF Len(xs) <= 2 THEN <<>> ELSE SubSeq(xs, 3, Len(xs))

\* list[3:]
DropThree(xs) == IF Len(xs) <= 3 THEN <<>> ELSE SubSeq(xs, 4, Len(xs))

\* str.strip() for blanks
RECURSIVE Strip(_)
Strip(s) ==
    IF Len(s) = 0 THEN s
    ELSE IF s[1] = " " THEN Strip(Tail(s))
    ELSE IF s[Len(s)] = " " THEN Strip(SubSeq(s, 1, Len(s) - 1))
    ELSE s

\* str.replace("&", "and")
RECURSIVE ReplaceAmp(_)
ReplaceAmp(s) ==
    IF Len(s) = 0 THEN <<>>
    ELSE (IF s[1] = "&" THEN <<"a", "n", "d">> ELSE <<s[1]>>) \o ReplaceAmp(Tail(s))

Upper(c) == CASE c = "a" -> "A" [] c = "g" -> "G" [] c = "k" -> "K"
              [] c = "p" -> "P" [] c = "s" -> "S" [] c = "t" -> "T"
              [] c = "y" -> "Y" [] OTHER -> c

\* utils.get_label: an identifier becomes a human label (underscores become
\* blanks, the first letter is capitalised).
get_label(name) ==
    [i \in 1..Len(name) |->
        IF name[i] = "_" THEN " " ELSE IF i = 1 THEN Upper(name[i]) ELSE name[i]]

Sep == <<" ", ">", " ">>

\* generate_js.on_property_parse, the label expression.
PropertyLabel(id) ==
    LET segs == DropThree(Split(id, "."))
    IN  Join([i \in 1..Len(segs) |-> get_label(segs[i])], Sep)

-----------------------------------------------------------------------------
(* The specialization model (utils_model): a tree of typed nodes.  A tree  *)
(* is a sequence of node records in declaration order, node 1 is the root  *)
(* and every other node names its parent / owner by index.  An             *)
(* enumeration is held by its property: enum_choices = 0 means the         *)
(* property has no enum, k > 0 an enum of k choices.                       *)

TYPE_KEY_REALM        == "realm"
TYPE_KEY_GRID         == "grid"
TYPE_KEY_KEYPROPS     == "keyprops"
TYPE_KEY_PROCESS      == "process"
TYPE_KEY_SUBPROCESS   == "subprocess"
TYPE_KEY_PROPERTY_SET == "property-set"
TYPE_KEY_PROPERTY     == "property"
TYPE_KEY_ENUM_CHOICE  == "enum-choice"

TopicKinds == {TYPE_KEY_GRID, TYPE_KEY_KEYPROPS, TYPE_KEY_PROCESS}

None == <<"<None>">>

KindChar(k) == CASE k = TYPE_KEY_GRID -> "g" [] k = TYPE_KEY_KEYPROPS -> "k"
                 [] k = TYPE_KEY_PROCESS -> "p" [] k = TYPE_KEY_SUBPROCESS -> "s"
                 [] k = TYPE_KEY_PROPERTY_SET -> "t" [] k = TYPE_KEY_PROPERTY -> "y"
                 [] OTHER -> "a"

Node(k, p, inj, cim, n, open) ==
    [type_key |-> k, parent |-> p, was_injected |-> inj,
     are_cim_properties |-> cim, enum_choices |-> n, enum_is_open |-> open,
     name |-> <<>>, id |-> <<>>]

RootNode == [Node(TYPE_KEY_REALM, 0, FALSE, FALSE, 0, FALSE)
                EXCEPT !.name = <<"a">>, !.id = <<"c", ".", "a">>]

\* One change-history entry: (version, date, person, comment).
DefaultHistory == << << <<"1">>, <<"d">>, <<"p">>, <<"c">> >> >>

RECURSIVE AncestorsOrSelf(_, _)
AncestorsOrSelf(t, n) ==
    IF n = 0 THEN {} ELSE {n} \cup AncestorsOrSelf(t, t[n].parent)

Children(t, n) == {c \in 1..Len(t) : t[c].parent = n}

\* Which node kinds may be declared under a parent: the root holds its grid,
\* then its key properties, then its processes; a process holds
\* sub-processes; topics and sub-processes hold property sets and
\* properties; a property set holds properties.
KindAllowed(t, p, k) ==
    LET pk   == t[p].type_key
        sibs == {t[c].type_key : c \in Children(t, p)}
    IN  CASE k = TYPE_KEY_GRID         -> p = 1 /\ sibs = {}
          [] k = TYPE_KEY_KEYPROPS     -> p = 1 /\ sibs \subseteq {TYPE_KEY_GRID}
          [] k = TYPE_KEY_PROCESS      -> p = 1
          [] k = TYPE_KEY_SUBPROCESS   -> pk = TYPE_KEY_PROCESS
          [] k = TYPE_KEY_PROPERTY_SET -> pk \in TopicKinds \cup {TYPE_KEY_SUBPROCESS}
          [] k = TYPE_KEY_PROPERTY     ->
                 pk \in TopicKinds \cup {TYPE_KEY_SUBPROCESS, TYPE_KEY_PROPERTY_SET}
          [] OTHER -> FALSE

Containers == {Node(k, 0, FALSE, FALSE, 0, FALSE) : k \in TopicKinds \cup {TYPE_KEY_SUBPROCESS}}
PropertySets == {Node(TYPE_KEY_PROPERTY_SET, 0, FALSE, c, 0, FALSE) : c \in BOOLEAN}
\* A property is injected or not, and has no enumeration or an open or
\* closed enumeration of MaxChoices choices.
Properties ==
    {Node(TYPE_KEY_PROPERTY, 0, w, FALSE, 0, FALSE) : w \in BOOLEAN}
    \cup {Node(TYPE_KEY_PROPERTY, 0, w, FALSE, MaxChoices, o) :
            w \in BOOLEAN, o \in BOOLEAN}

\* The nodes that may be declared next.  In a depth-first document the
\* parent of the next node is the last node or one of its ancestors; a
\* property set flagged "members are CIM properties" holds injected
\* properties only.
Declarable(t, nd) ==
    /\ nd.parent \in AncestorsOrSelf(t, Len(t))
    /\ KindAllowed(t, nd.parent, nd.type_key)
    /\ nd.was_injected \/ ~t[nd.parent].are_cim_properties

\* A declared node is named after its kind and position, and its id is its
\* parent's id extended by its name.
Named(t, nd) ==
    LET nm == <<KindChar(nd.type_key), "_", Digit(Len(t) + 1)>>
    IN  [nd EXCEPT !.name = nm, !.id = t[nd.parent].id \o <<".">> \o nm]

\* The attributes of a node that the generators read and that do not vary.
Description(nd) ==
    IF nd.type_key \in {TYPE_KEY_SUBPROCESS, TYPE_KEY_PROPERTY_SET} THEN None
    ELSE <<"x", "&", "y">>
Contact(nd)      == <<"m", "@", "x">>
Authors(nd)      == <<"a", ",", " ", "b">>
Contributors(nd) == <<"c">>
Cardinality_(nd) == <<"1", ".", "1">>
TypeOf(nd)       == <<"s", "t", "r">>

\* Enumeration and enum-choice attributes; choice j of the enum of node n.
EnumName(nd)         == <<"e", "_">> \o nd.name
EnumDescription(nd)  == <<"e", "d">>
ChoiceValue(j)       == <<"v", Digit(j)>>
ChoiceDescription(j) == <<"d", Digit(j)>>

-----------------------------------------------------------------------------
(* The traversal (utils_parser.SpecializationParser.run): one enter event  *)
(* per node in document order, ended by the root's exit event.  A node is  *)
(* identified by <<n, 0>>, choice j of the enum of property n by <<n, j>>. *)
(* The root handed to the parser is entered as the root whatever its kind  *)
(* key is; every other node is dispatched by its kind.                     *)

Ident(n) == <<n, 0>>

Event(e, n, j) == [ev |-> e, node |-> n, choice |-> j]

EnterEvent(k) ==
    CASE k = TYPE_KEY_REALM        -> "root_parse"
      [] k = TYPE_KEY_GRID         -> "grid_parse"
      [] k = TYPE_KEY_KEYPROPS     -> "keyprops_parse"
      [] k = TYPE_KEY_PROCESS      -> "process_parse"
      [] k = TYPE_KEY_SUBPROCESS   -> "subprocess_parse"
      [] k = TYPE_KEY_PROPERTY_SET -> "property_set_parse"
      [] OTHER                     -> "property_parse"

\* The children of n in declaration order.
RECURSIVE SortedSeq(_)
SortedSeq(S) ==
    IF S = {} THEN <<>>
    ELSE LET m == CHOOSE x \in S : \A y \in S : x <= y
         IN  <<m>> \o SortedSeq(S \ {m})

ChildSeq(t, n) == SortedSeq(Children(t, n))

RECURSIVE Walk(_, _)
RECURSIVE WalkAll(_, _)
Walk(t, n) ==
    <<Event(IF n = 1 THEN "root_parse" ELSE EnterEvent(t[n].type_key), n, 0)>>
    \o [j \in 1..t[n].enum_choices |-> Event("enum_choice_parse", n, j)]
    \o WalkAll(t, ChildSeq(t, n))
WalkAll(t, cs) ==
    IF Len(cs) = 0 THEN <<>> ELSE Walk(t, Head(cs)) \o WalkAll(t, Tail(cs))

Events(m) == Walk(m.nodes, 1) \o <<Event("root_parsed", 1, 0)>>

\* prop.root_topic: the sub-topic of root that holds the property.
RECURSIVE RootTopic(_, _)
RootTopic(t, n) ==
    IF t[n].parent <= 1 THEN n ELSE RootTopic(t, t[n].parent)

\* root.sub_topics
SubTopics(t) == ChildSeq(t, 1)

-----------------------------------------------------------------------------
(* Loading the specialization, and the common run state.                   *)

Put(f, k, v) == [x \in DOMAIN f \cup {k} |-> IF x = k THEN v ELSE f[x]]

Root == model.nodes[1]

CurEvent == Events(model)[pc]

Running(g) == gen = g /\ status = "running"

\* The event was handled: the walk moves on, and ends after the last event.
Advance ==
    /\ pc' = pc + 1
    /\ status' = IF pc = Len(Events(model)) THEN "parsed" ELSE "running"

\* The handler raised: the exception leaves run().
Raise == pc' = pc /\ status' = "failed"

Init ==
    /\ \E u \in BOOLEAN :
          model = [nodes |-> <<RootNode>>, change_history |-> DefaultHistory, urls |-> u]
    /\ gen = "none"
    /\ pc = 0
    /\ status = "loading"
    /\ run = 0
    /\ maps = <<>>
    /\ mmap = 0
    /\ nodes = <<>>
    /\ elems = <<>>
    /\ outputs = <<>>

\* The loader declares the next node of the document.
Declare ==
    /\ status = "loading"
    /\ Len(model.nodes) < MaxNodes
    /\ \E nd \in Containers \cup PropertySets \cup Properties :
       \E p \in 1..Len(model.nodes) :
          LET d == [nd EXCEPT !.parent = p]
          IN  /\ Declarable(model.nodes, d)
              /\ model' = [model EXCEPT !.nodes = Append(@, Named(model.nodes, d))]
    /\ UNCHANGED <<gen, pc, status, run, maps, mmap, nodes, elems, outputs>>

-----------------------------------------------------------------------------
(* generate_js.Generator: the Tree Form.                                   *)

\* Generator(project, root), then run() starts the walk.
JS_init ==
    /\ status = "loading"
    /\ gen' = "js"
    /\ maps' = <<>>
    /\ pc' = 1
    /\ run' = 1
    /\ status' = "running"
    /\ UNCHANGED <<model, mmap, nodes, elems, outputs>>

StripAll(parts) == [i \in 1..Len(parts) |-> Strip(parts[i])]

_get_change(i) == [version |-> i[1], date |-> i[2], author |-> i[3], note |-> i[4]]

RootFragment(root) ==
    [id            |-> root.id,
     label         |-> get_label(root.name),
     description   |-> Description(root),
     contact       |-> Contact(root),
     authors       |-> StripAll(Split(Authors(root), ",")),
     contributors  |-> StripAll(Split(Contributors(root), ",")),
     project       |-> <<"cordex">>,
     changeHistory |-> [i \in 1..Len(model.change_history) |->
                           _get_change(model.change_history[i])],
     subTopics     |-> <<>>]

JS_on_root_parse ==
    /\ Running("js")
    /\ CurEvent.ev = "root_parse"
    /\ maps' = Put(maps, 1, RootFragment(Root))
    /\ Advance
    /\ UNCHANGED <<model, gen, run, mmap, nodes, elems, outputs>>

\* Mutant of JS_on_root_parsed: every sub-topic fragment is appended twice.
JS_on_root_parsed_Twice ==
    /\ Running("js")
    /\ CurEvent.ev = "root_parsed"
    /\ LET st == SubTopics(model.nodes)
       IN  IF (\A k \in 1..Len(st) : st[k] \in DOMAIN maps) /\ 1 \in DOMAIN maps
           THEN /\ maps' = [maps EXCEPT ![1].subTopics =
                               @ \o [k \in 1..Len(st) |-> maps[st[k]]]
                                 \o [k \in 1..Len(st) |-> maps[st[k]]]]
                /\ Advance
           ELSE /\ Raise
                /\ UNCHANGED maps
    /\ UNCHANGED <<model, gen, run, mmap, nodes, elems, outputs>>

\* The list of cached sub-topic fragments is built first (a missing one
\* raises KeyError), then each is appended to the root's subTopics.
JS_on_root_parsed ==
    /\ Running("js")
    /\ CurEvent.ev = "root_parsed"
    /\ LET st == SubTopics(model.nodes)
       IN  IF (\A k \in 1..Len(st) : st[k] \in DOMAIN maps) /\ 1 \in DOMAIN maps
           THEN /\ maps' = [maps EXCEPT ![1].subTopics =
                               @ \o [k \in 1..Len(st) |-> maps[st[k]]]]
                /\ Advance
           ELSE /\ Raise
                /\ UNCHANGED maps
    /\ UNCHANGED <<model, gen, run, mmap, nodes, elems, outputs>>

TopicFragment(topic) ==
    [id          |-> topic.id,
     label       |-> get_label(topic.name),
     description |-> Description(topic),
     contact     |-> Contact(topic),
     properties  |-> <<>>]

\* Mutant of JS_on_topic_parse: a fragment already cached is kept.
JS_on_topic_parse_KeepCached ==
    /\ Running("js")
    /\ CurEvent.ev \in {"grid_parse", "keyprops_parse", "process_parse"}
    /\ maps' = IF CurEvent.node \in DOMAIN maps THEN maps
               ELSE Put(maps, CurEvent.node, TopicFragment(model.nodes[CurEvent.node]))
    /\ Advance
    /\ UNCHANGED <<model, gen, run, mmap, nodes, elems, outputs>>

\* on_grid_parse, on_keyprops_parse and on_process_parse are on_topic_parse.
JS_on_topic_parse ==
    /\ Running("js")
    /\ CurEvent.ev \in {"grid_parse", "keyprops_parse", "process_parse"}
    /\ maps' = Put(maps, CurEvent.node, TopicFragment(model.nodes[CurEvent.node]))
    /\ Advance
    /\ UNCHANGED <<model, gen, run, mmap, nodes, elems, outputs>>

\* Mutant of _get_enum: the last choice is lost and is_open is not copied.
_get_enum_Closed(prop) ==
    [id          |-> EnumDescription(prop),
     label       |-> get_label(EnumName(prop)),
     description |-> EnumDescription(prop),
     is_open     |-> FALSE,
     choices     |-> [j \in 1..(prop.enum_choices - 1) |->
                         [description |-> ChoiceDescription(j), value |-> ChoiceValue(j)]]]

_get_enum(prop) ==
    [id          |-> EnumDescription(prop),
     label       |-> get_label(EnumName(prop)),
     description |-> EnumDescription(prop),
     is_open     |-> prop.enum_is_open,
     choices     |-> [j \in 1..prop.enum_choices |->
                         [description |-> ChoiceDescription(j), value |-> ChoiceValue(j)]]]

PropertyFragment(prop) ==
    LET obj == [id              |-> prop.id,
                label           |-> PropertyLabel(prop.id),
                description     |-> Description(prop),
                cardinality     |-> Cardinality_(prop),
                type            |-> IF prop.enum_choices > 0 THEN <<"enum">> ELSE TypeOf(prop),
                is_cim_property |-> prop.was_injected]
    IN  IF prop.enum_choices > 0 THEN obj @@ [enum |-> _get_enum(prop)] ELSE obj

\* Mutants of AttachProperty: the list is overwritten / the fragment is put first.
AttachProperty_Overwrite(properties, obj) == <<obj>>
AttachProperty_Prepend(properties, obj) == <<obj>> \o properties

\* Where the property's fragment goes in its root topic's properties list.
AttachProperty(properties, obj) == Append(properties, obj)

\* Mutant of JS_on_property_parse: a missing topic fragment is created on
\* the spot instead of raising.
JS_on_property_parse_Setdefault ==
    /\ Running("js")
    /\ CurEvent.ev = "property_parse"
    /\ LET prop == model.nodes[CurEvent.node]
           rt   == RootTopic(model.nodes, CurEvent.node)
           m0   == IF rt \in DOMAIN maps THEN maps
                   ELSE Put(maps, rt, TopicFragment(model.nodes[rt]))
       IN  maps' = [m0 EXCEPT ![rt].properties = AttachProperty(@, PropertyFragment(prop))]
    /\ Advance
    /\ UNCHANGED <<model, gen, run, mmap, nodes, elems, outputs>>

\* Mutant of JS_on_property_parse: the fragment is appended to the
\* properties list of every cached topic fragment.
JS_on_property_parse_AllTopics ==
    /\ Running("js")
    /\ CurEvent.ev = "property_parse"
    /\ LET prop == model.nodes[CurEvent.node]
           rt   == RootTopic(model.nodes, CurEvent.node)
       IN  IF rt \in DOMAIN maps
           THEN /\ maps' = [k \in DOMAIN maps |->
                               IF "properties" \in DOMAIN maps[k]
                               THEN [maps[k] EXCEPT !.properties =
                                        AttachProperty(@, PropertyFragment(prop))]
                               ELSE maps[k]]
                /\ Advance
           ELSE /\ Raise
                /\ UNCHANGED maps
    /\ UNCHANGED <<model, gen, run, mmap, nodes, elems, outputs>>

JS_on_property_parse ==
    /\ Running("js")
    /\ CurEvent.ev = "property_parse"
    /\ LET prop == model.nodes[CurEvent.node]
           rt   == RootTopic(model.nodes, CurEvent.node)
       IN  IF rt \in DOMAIN maps
           THEN /\ maps' = [maps EXCEPT ![rt].properties =
                               AttachProperty(@, PropertyFragment(prop))]
                /\ Advance
           ELSE /\ Raise
                /\ UNCHANGED maps
    /\ UNCHANGED <<model, gen, run, mmap, nodes, elems, outputs>>

\* Events the Tree Form has no handler for: the parser's default is a no-op.
JS_unhandled ==
    /\ Running("js")
    /\ CurEvent.ev \in {"subprocess_parse", "property_set_parse", "enum_choice_parse"}
    /\ Advance
    /\ UNCHANGED <<model, gen, run, maps, mmap, nodes, elems, outputs>>

\* json.dumps of the root fragment, substituted for TOPIC in the template.
JS_get_output ==
    /\ gen = "js"
    /\ status = "parsed"
    /\ Len(outputs) < run
    /\ outputs' = Append(outputs, [template |-> "generate_js.template", TOPIC |-> maps[1]])
    /\ UNCHANGED <<model, gen, pc, status, run, maps, mmap, nodes, elems>>

-----------------------------------------------------------------------------
(* generate_mm.Generator: the Graph Form.  An Element is kept in the heap  *)
(* elems as [tag, parent, atts, notes]; the children of an element are the *)
(* elements that name it as parent, in creation order (SubElement          *)
(* appends).  notes is the <dl> list of a richcontent element.             *)

Style(bg, size, collapsed, description) ==
    [x \in {"bg-color", "font-bold", "font-color", "font-name", "font-size",
            "is-collapsed", "description"} |->
        CASE x = "bg-color"     -> <<bg>>
          [] x = "font-bold"    -> <<"True">>
          [] x = "font-color"   -> <<"#000000">>
          [] x = "font-name"    -> <<"courier">>
          [] x = "font-size"    -> <<size>>
          [] x = "is-collapsed" -> <<collapsed>>
          [] OTHER              -> <<description>>]

\* The mind-map configuration; str() of the numbers and booleans is applied.
_CONFIG ==
    [k \in {"model", "realm", "grid", "keyprops", "process", "subprocess",
            "property-set", "property", "enum-choice"} |->
        CASE k = "model"        -> Style("#F5A9BC", "14", "False", "A model component.")
          [] k = "realm"        -> Style("#66cc00", "14", "False", "Scientific area of a numerical model.")
          [] k = "grid"         -> Style("#ccccff", "12", "False", "The grid used to layout the variables.")
          [] k = "keyprops"     -> Style("#ffff66", "12", "False", "Realm key properties.")
          [] k = "process"      -> Style("#FFFFFF", "12", "False", "Process simulated within the realm.")
          [] k = "subprocess"   -> Style("#ACF0F2", "12", "False", "A sub-process simulated within a realm process.")
          [] k = "property-set" -> Style("#F3FFE2", "10", "True", "Provides details of specific properties.")
          [] k = "property"     -> Style("#C9D787", "10", "True", "A property associated with a detail.")
          [] OTHER              -> Style("#FFFFFF", "10", "True", "A choice within an enumeration.")]

\* The mind-map sections, in insertion order.
_SECTIONS ==
    <<TYPE_KEY_ENUM_CHOICE, TYPE_KEY_GRID, TYPE_KEY_KEYPROPS, TYPE_KEY_PROCESS,
      TYPE_KEY_PROPERTY, TYPE_KEY_PROPERTY_SET, TYPE_KEY_REALM, TYPE_KEY_SUBPROCESS>>

\* Mutant of get_section: a key without a record gets the record of model.
get_section_Default(key) == IF key \in DOMAIN _CONFIG THEN _CONFIG[key] ELSE _CONFIG["model"]

\* _Configuration.get_section: self._data.get(key, {})
get_section(key) == IF key \in DOMAIN _CONFIG THEN _CONFIG[key] ELSE <<>>

\* str(x).lower() of a configured boolean
Lower(b) == IF b = <<"True">> THEN <<"true">> ELSE <<"false">>

Elem(tag, parent, atts, notes) ==
    [tag |-> tag, parent |-> parent, atts |-> atts, notes |-> notes]

\* ET.SubElement(parent, tag, atts): the new element is the last of elems.
SubElement(st, parent, tag, atts, notes) ==
    [st EXCEPT !.elems = Append(@, Elem(tag, parent, atts, notes))]

\* The identity standing for self.mmap when it is passed as the parent.
MapKey == <<0, 0>>

\* The enum choice j of a property, as the owner handed to _emit_node.
Choice(prop, j) ==
    [type_key |-> TYPE_KEY_ENUM_CHOICE, parent |-> 0, was_injected |-> FALSE,
     are_cim_properties |-> FALSE, enum_choices |-> 0, enum_is_open |-> FALSE,
     name |-> ChoiceValue(j), id |-> prop.id \o <<".">> \o ChoiceValue(j)]

Url(owner) == <<"u", ":">> \o owner.id

\* _get_notes, each value already applied to the owner.
_get_notes(spec) ==
    << <<"Description",
         IF Description(spec) = None THEN <<"N/A">> ELSE ReplaceAmp(Description(spec))>>,
       <<"Spec. ID", spec.id>> >>
    \o (IF spec.type_key = TYPE_KEY_PROPERTY
        THEN << <<"Type", TypeOf(spec)>>, <<"Cardinality", Cardinality_(spec)>>,
                <<"Specialization ID", spec.id>> >>
        ELSE IF spec.type_key = TYPE_KEY_REALM
        THEN << <<"Contact", Contact(spec)>>, <<"Authors", Authors(spec)>>,
                <<"Contributors", Contributors(spec)>> >>
        ELSE <<>>)

\* _emit_notes: a richcontent NOTE element under the given element.
_emit_notes(st, parent, notes) ==
    SubElement(st, parent, "richcontent", [x \in {"TYPE"} |-> <<"NOTE">>], notes)

_emit_font(st, key, cfg) ==
    SubElement(st, st.nodes[key], "font",
               [x \in {"BOLD", "NAME", "SIZE"} |->
                   CASE x = "BOLD" -> cfg["font-bold"]
                     [] x = "NAME" -> cfg["font-name"]
                     [] OTHER      -> cfg["font-size"]],
               <<>>)

\* Mutant of EmitOK: an owner without a url attribute is an error.
EmitOK_UrlRequired(st, parent, owner) ==
    /\ "is-collapsed" \in DOMAIN get_section(owner.type_key)
    /\ parent = MapKey \/ parent \in DOMAIN st.nodes
    /\ model.urls

\* Whether _emit_node gets through: the style record is there, and the
\* parent is an Element or is in the node cache.
EmitOK(st, parent, owner) ==
    /\ "is-collapsed" \in DOMAIN get_section(owner.type_key)
    /\ parent = MapKey \/ parent \in DOMAIN st.nodes

NodeAtts(cfg, owner, text, style) ==
    LET atts == [x \in {"FOLDED", "COLOR", "BACKGROUND_COLOR", "STYLE", "TEXT"} |->
                    CASE x = "FOLDED"           -> Lower(cfg["is-collapsed"])
                      [] x = "COLOR"            -> cfg["font-color"]
                      [] x = "BACKGROUND_COLOR" -> cfg["bg-color"]
                      [] x = "STYLE"            -> <<style>>
                      [] OTHER                  -> IF Len(text) > 0 THEN text ELSE owner.name]
    IN  IF model.urls THEN atts @@ [x \in {"LINK"} |-> Url(owner)] ELSE atts

\* Where the new graph node is attached.
NodeParent(st, parent) == IF parent = MapKey THEN st.mmap ELSE st.nodes[parent]

_emit_node(st, parent, key, owner, text, style) ==
    LET cfg == get_section(owner.type_key)
        s0  == SubElement(st, NodeParent(st, parent), "node",
                          NodeAtts(cfg, owner, text, style), <<>>)
        s1  == [s0 EXCEPT !.nodes = Put(@, key, Len(s0.elems))]
        s2  == _emit_font(s1, key, cfg)
    IN  _emit_notes(s2, s2.nodes[key], _get_notes(owner))

\* Mutant of HistoryFrom: Person is written before Date.
RECURSIVE HistoryFrom_Swapped(_, _, _)
HistoryFrom_Swapped(st, hnode, i) ==
    IF i > Len(model.change_history) THEN st
    ELSE LET h  == model.change_history[i]
             s0 == SubElement(st, hnode, "node",
                              [x \in {"STYLE", "TEXT"} |->
                                  IF x = "STYLE" THEN <<"bubble">> ELSE h[1]], <<>>)
             s1 == _emit_notes(s0, Len(s0.elems),
                               << <<"Version", h[1]>>, <<"Person", h[3]>>,
                                  <<"Date", h[2]>>, <<"Comment", h[4]>> >>)
         IN  HistoryFrom_Swapped(s1, hnode, i + 1)

\* The children of the change-history node, from entry i on.
RECURSIVE HistoryFrom(_, _, _)
HistoryFrom(st, hnode, i) ==
    IF i > Len(model.change_history) THEN st
    ELSE LET h  == model.change_history[i]
             s0 == SubElement(st, hnode, "node",
                              [x \in {"STYLE", "TEXT"} |->
                                  IF x = "STYLE" THEN <<"bubble">> ELSE h[1]], <<>>)
             s1 == _emit_notes(s0, Len(s0.elems),
                               << <<"Version", h[1]>>, <<"Date", h[2]>>,
                                  <<"Person", h[3]>>, <<"Comment", h[4]>> >>)
         IN  HistoryFrom(s1, hnode, i + 1)

_emit_change_history(st, key) ==
    LET s0 == SubElement(st, st.nodes[key], "node",
                         [x \in {"FOLDED", "STYLE", "TEXT", "POSITION"} |->
                             CASE x = "FOLDED"   -> <<"true">>
                               [] x = "STYLE"    -> <<"bubble">>
                               [] x = "TEXT"     -> <<"CHANGE HISTORY">>
                               [] OTHER          -> <<"left">>], <<>>)
    IN  HistoryFrom(s0, Len(s0.elems), 1)

RECURSIVE LegendFrom(_, _, _, _)
LegendFrom(st, lnode, sections, i) ==
    IF i > Len(sections) THEN st
    ELSE LET cfg == get_section(sections[i])
             s0  == SubElement(st, lnode, "node",
                               [x \in {"BACKGROUND_COLOR", "COLOR", "STYLE", "TEXT"} |->
                                   CASE x = "BACKGROUND_COLOR" -> cfg["bg-color"]
                                     [] x = "COLOR"            -> cfg["font-color"]
                                     [] x = "STYLE"            -> <<"bubble">>
                                     [] OTHER                  -> <<sections[i]>>], <<>>)
             s1  == _emit_notes(s0, Len(s0.elems),
                                << <<"Description", cfg["description"]>> >>)
         IN  LegendFrom(s1, lnode, sections, i + 1)

\* Mutant of LegendSections: the last section is left out.
LegendSections_Short == SubSeq(_SECTIONS, 1, Len(_SECTIONS) - 1)

\* The sections the legend lists.
LegendSections == _SECTIONS

_emit_legend(st, key) ==
    LET s0 == SubElement(st, st.nodes[key], "node",
                         [x \in {"FOLDED", "STYLE", "TEXT", "POSITION"} |->
                             CASE x = "FOLDED"   -> <<"true">>
                               [] x = "STYLE"    -> <<"bubble">>
                               [] x = "TEXT"     -> <<"LEGEND">>
                               [] OTHER          -> <<"left">>], <<>>)
    IN  LegendFrom(s0, Len(s0.elems), LegendSections, 1)

St == [elems |-> elems, nodes |-> nodes, mmap |-> mmap]

Commit(st) == elems' = st.elems /\ nodes' = st.nodes /\ mmap' = st.mmap

\* Generator(project, root), then run() starts the walk.
MM_init ==
    /\ status = "loading"
    /\ gen' = "mm"
    /\ mmap' = 0
    /\ nodes' = <<>>
    /\ pc' = 1
    /\ run' = 1
    /\ status' = "running"
    /\ UNCHANGED <<model, maps, elems, outputs>>

\* A handler that is one call of _emit_node(parent, owner).
EmitOne(parent, key, owner, text) ==
    IF EmitOK(St, parent, owner)
    THEN Commit(_emit_node(St, parent, key, owner, text, "bubble")) /\ Advance
    ELSE Raise /\ UNCHANGED <<elems, nodes, mmap>>

\* A handler that calls _emit_node(parent, owner) and then _emit_notes(owner).
EmitWithNotes(parent, key, owner) ==
    IF EmitOK(St, parent, owner)
    THEN LET s0 == _emit_node(St, parent, key, owner, <<>>, "bubble")
         IN  Commit(_emit_notes(s0, s0.nodes[key], _get_notes(owner))) /\ Advance
    ELSE Raise /\ UNCHANGED <<elems, nodes, mmap>>

MM_on_root_parse ==
    /\ Running("mm")
    /\ CurEvent.ev = "root_parse"
    /\ LET s0 == [St EXCEPT !.elems = Append(@, Elem("map", 0, <<>>, <<>>)),
                            !.mmap = Len(elems) + 1]
       IN  IF EmitOK(s0, MapKey, Root)
           THEN LET s1 == _emit_node(s0, MapKey, Ident(1), Root, <<>>, "fork")
                    s2 == _emit_change_history(s1, Ident(1))
                IN  Commit(_emit_legend(s2, Ident(1))) /\ Advance
           ELSE Commit(s0) /\ Raise
    /\ UNCHANGED <<model, gen, run, maps, outputs>>

MM_on_grid_parse ==
    /\ Running("mm")
    /\ CurEvent.ev = "grid_parse"
    /\ EmitOne(Ident(1), Ident(CurEvent.node), model.nodes[CurEvent.node], <<>>)
    /\ UNCHANGED <<model, gen, run, maps, outputs>>

MM_on_keyprops_parse ==
    /\ Running("mm")
    /\ CurEvent.ev = "keyprops_parse"
    /\ EmitOne(Ident(1), Ident(CurEvent.node), model.nodes[CurEvent.node], <<>>)
    /\ UNCHANGED <<model, gen, run, maps, outputs>>

MM_on_process_parse ==
    /\ Running("mm")
    /\ CurEvent.ev = "process_parse"
    /\ EmitWithNotes(Ident(1), Ident(CurEvent.node), model.nodes[CurEvent.node])
    /\ UNCHANGED <<model, gen, run, maps, outputs>>

MM_on_subprocess_parse ==
    /\ Running("mm")
    /\ CurEvent.ev = "subprocess_parse"
    /\ LET subprocess == model.nodes[CurEvent.node]
       IN  EmitOne(Ident(subprocess.parent), Ident(CurEvent.node), subprocess, <<>>)
    /\ UNCHANGED <<model, gen, run, maps, outputs>>

MM_on_property_set_parse ==
    /\ Running("mm")
    /\ CurEvent.ev = "property_set_parse"
    /\ LET prop_set == model.nodes[CurEvent.node]
       IN  IF prop_set.are_cim_properties
           THEN Advance /\ UNCHANGED <<elems, nodes, mmap>>
           ELSE EmitOne(Ident(prop_set.parent), Ident(CurEvent.node), prop_set, <<>>)
    /\ UNCHANGED <<model, gen, run, maps, outputs>>

\* Mutant of MM_on_property_parse: the injected flag is not looked at.
MM_on_property_parse_NoSkip ==
    /\ Running("mm")
    /\ CurEvent.ev = "property_parse"
    /\ LET prop == model.nodes[CurEvent.node]
       IN  IF Ident(prop.parent) \in DOMAIN nodes
           THEN EmitWithNotes(Ident(prop.parent), Ident(CurEvent.node), prop)
           ELSE EmitWithNotes(Ident(1), Ident(CurEvent.node), prop)
    /\ UNCHANGED <<model, gen, run, maps, outputs>>

MM_on_property_parse ==
    /\ Running("mm")
    /\ CurEvent.ev = "property_parse"
    /\ LET prop == model.nodes[CurEvent.node]
       IN  IF prop.was_injected
           THEN Advance /\ UNCHANGED <<elems, nodes, mmap>>
           ELSE EmitWithNotes(Ident(prop.parent), Ident(CurEvent.node), prop)
    /\ UNCHANGED <<model, gen, run, maps, outputs>>

\* choice.enum.detail is the property that holds the enumeration.
MM_on_enum_choice_parse ==
    /\ Running("mm")
    /\ CurEvent.ev = "enum_choice_parse"
    /\ LET choice == Choice(model.nodes[CurEvent.node], CurEvent.choice)
       IN  EmitOne(Ident(CurEvent.node), <<CurEvent.node, CurEvent.choice>>,
                   choice, ChoiceValue(CurEvent.choice))
    /\ UNCHANGED <<model, gen, run, maps, outputs>>

\* The Graph Form has no handler for the root's exit event.
MM_unhandled ==
    /\ Running("mm")
    /\ CurEvent.ev = "root_parsed"
    /\ Advance
    /\ UNCHANGED <<model, gen, run, maps, mmap, nodes, elems, outputs>>

\* ET.tostring: an element with its attributes and its children in order.
ElemChildren(es, e) == SortedSeq({i \in 1..Len(es) : es[i].parent = e})

RECURSIVE Serialize(_, _)
Serialize(es, e) ==
    LET cs == ElemChildren(es, e)
    IN  [tag |-> es[e].tag, atts |-> es[e].atts, notes |-> es[e].notes,
         children |-> [i \in 1..Len(cs) |-> Serialize(es, cs[i])]]

MM_get_output ==
    /\ gen = "mm"
    /\ status = "parsed"
    /\ Len(outputs) < run
    /\ outputs' = Append(outputs, Serialize(elems, mmap))
    /\ UNCHANGED <<model, gen, pc, status, run, maps, mmap, nodes, elems>>

-----------------------------------------------------------------------------
(* The specifications.                                                     *)

Next ==
    \/ Declare
    \/ JS_init
    \/ JS_on_root_parse
    \/ JS_on_topic_parse
    \/ JS_on_property_parse
    \/ JS_unhandled
    \/ JS_on_root_parsed
    \/ JS_get_output
    \/ MM_init
    \/ MM_on_root_parse
    \/ MM_on_grid_parse
    \/ MM_on_keyprops_parse
    \/ MM_on_process_parse
    \/ MM_on_subprocess_parse
    \/ MM_on_property_set_parse
    \/ MM_on_property_parse
    \/ MM_on_enum_choice_parse
    \/ MM_unhandled
    \/ MM_get_output

\* One generation run over a well-formed specialization.
Spec == Init /\ [][Next]_vars

\* The same walk is driven again over the same Generator instance.
Rerun ==
    /\ status = "parsed"
    /\ Len(outputs) = run
    /\ run < MaxRuns
    /\ Len(model.nodes) <= MaxRerunNodes
    /\ run' = run + 1
    /\ pc' = 1
    /\ status' = "running"
    /\ UNCHANGED <<model, gen, maps, mmap, nodes, elems, outputs>>

NextRerun == Next \/ Rerun

SpecRerun == Init /\ [][NextRerun]_vars

\* A malformed document: a sub-process declared directly under the root.
DeclareMalformed ==
    /\ status = "loading"
    /\ Len(model.nodes) < MaxNodes
    /\ model' = [model EXCEPT !.nodes =
                    Append(@, Named(model.nodes,
                                    Node(TYPE_KEY_SUBPROCESS, 1, FALSE, FALSE, 0, FALSE)))]
    /\ UNCHANGED <<gen, pc, status, run, maps, mmap, nodes, elems, outputs>>

NextMalformed == Next \/ DeclareMalformed

SpecMalformed == Init /\ [][NextMalformed]_vars

\* Root-only specializations with every change history of up to MaxChanges
\* entries.
HistoryEntries ==
    {<<v, <<"d">>, p, <<"c">>>> : v \in {<<"1">>, <<"2">>}, p \in {<<"p">>, <<"q">>}}

InitHistory ==
    /\ \E n \in 0..MaxChanges : \E h \in [1..n -> HistoryEntries] : \E u \in BOOLEAN :
          model = [nodes |-> <<RootNode>>, change_history |-> h, urls |-> u]
    /\ gen = "none"
    /\ pc = 0
    /\ status = "loading"
    /\ run = 0
    /\ maps = <<>>
    /\ mmap = 0
    /\ nodes = <<>>
    /\ elems = <<>>
    /\ outputs = <<>>

NextHistory ==
    \/ JS_init
    \/ JS_on_root_parse
    \/ JS_on_root_parsed
    \/ JS_get_output
    \/ MM_init
    \/ MM_on_root_parse
    \/ MM_unhandled
    \/ MM_get_output

SpecHistory == InitHistory /\ [][NextHistory]_vars

\* One process with one property whose id is any dotted id of up to MaxSegs
\* segments.
SegmentNames == {<<>>, <<"a">>, <<"p", "_", "a">>}

InitLabel ==
    /\ \E n \in 0..MaxSegs : \E segs \in [1..n -> SegmentNames] :
          LET process == Named(<<RootNode>>, Node(TYPE_KEY_PROCESS, 1, FALSE, FALSE, 0, FALSE))
              prop    == [Named(<<RootNode, process>>,
                                Node(TYPE_KEY_PROPERTY, 2, FALSE, FALSE, 0, FALSE))
                             EXCEPT !.id = Join(segs, <<".">>)]
          IN  model = [nodes |-> <<RootNode, process, prop>>,
                       change_history |-> DefaultHistory, urls |-> FALSE]
    /\ gen = "none"
    /\ pc = 0
    /\ status = "loading"
    /\ run = 0
    /\ maps = <<>>
    /\ mmap = 0
    /\ nodes = <<>>
    /\ elems = <<>>
    /\ outputs = <<>>

NextLabel ==
    \/ JS_init
    \/ JS_on_root_parse
    \/ JS_on_topic_parse
    \/ JS_on_property_parse
    \/ JS_on_root_parsed
    \/ JS_get_output

SpecLabel == InitLabel /\ [][NextLabel]_vars

\* Specializations whose root has the kind key realm or a kind key that the
\* mind-map configuration has no record for.
UnconfiguredKey == "domain"

RootKinds == {TYPE_KEY_REALM, UnconfiguredKey}

InitKinds ==
    /\ \E k \in RootKinds :
          model = [nodes |-> <<[RootNode EXCEPT !.type_key = k]>>,
                   change_history |-> DefaultHistory, urls |-> FALSE]
    /\ gen = "none"
    /\ pc = 0
    /\ status = "loading"
    /\ run = 0
    /\ maps = <<>>
    /\ mmap = 0
    /\ nodes = <<>>
    /\ elems = <<>>
    /\ outputs = <<>>

SpecKinds == InitKinds /\ [][Next]_vars

-----------------------------------------------------------------------------
(* Vocabulary of the properties.                                           *)

T == model.nodes

NodesOfKind(k) == {n \in 1..Len(T) : T[n].type_key = k}

\* The properties a sub-topic of root holds, anywhere below it.
PropsOf(topic) == {n \in NodesOfKind(TYPE_KEY_PROPERTY) : RootTopic(T, n) = topic}

\* The properties declared directly under a node.
DirectProps(n) == {c \in Children(T, n) : T[c].type_key = TYPE_KEY_PROPERTY}

Ids(frags) == [i \in 1..Len(frags) |-> frags[i].id]

NodeIds(ns) == [i \in 1..Len(ns) |-> T[ns[i]].id]

Count(xs, x) == Cardinality({i \in 1..Len(xs) : xs[i] = x})

\* The Tree Form has been produced; TreeOut is the JSON value of the run.
TreeDone == gen = "js" /\ Len(outputs) > 0
TreeOut == outputs[Len(outputs)].TOPIC

\* Every id that a topic or property fragment of the output carries.
FragmentIds(out) ==
    {out.id} \cup {out.subTopics[k].id : k \in 1..Len(out.subTopics)}
    \cup UNION {{out.subTopics[k].properties[i].id :
                    i \in 1..Len(out.subTopics[k].properties)} :
                 k \in 1..Len(out.subTopics)}

\* The property fragments of the output.
PropertyFragments(out) ==
    UNION {{out.subTopics[k].properties[i] : i \in 1..Len(out.subTopics[k].properties)} :
             k \in 1..Len(out.subTopics)}

\* The model nodes the Graph Form suppresses.
Suppressed ==
    {n \in NodesOfKind(TYPE_KEY_PROPERTY) : T[n].was_injected}
    \cup {n \in NodesOfKind(TYPE_KEY_PROPERTY_SET) : T[n].are_cim_properties}

\* The graph nodes (elements of tag node) whose text is the given one.
GraphNodesNamed(text) ==
    {e \in 1..Len(elems) : elems[e].tag = "node" /\ elems[e].atts["TEXT"] = text}

\* The child graph nodes of an element, in document order.
GraphChildren(e) ==
    SortedSeq({c \in 1..Len(elems) : elems[c].parent = e /\ elems[c].tag = "node"})

KeyLess(a, b) == a[1] < b[1] \/ (a[1] = b[1] /\ a[2] < b[2])

-----------------------------------------------------------------------------
(* C1 -- completeness of the Tree Form.                                    *)

\* C1 as stated: after the walk the output holds exactly one fragment per
\* Root, Topic, Subprocess and Property node, and every subTopics,
\* properties and choices list is as long as the node has such children.
C1_Original ==
    TreeDone =>
        LET out == TreeOut
            st  == SubTopics(T)
        IN  /\ Len(out.subTopics) = Len(st)
            /\ \A n \in NodesOfKind(TYPE_KEY_SUBPROCESS) \cup NodesOfKind(TYPE_KEY_PROPERTY) :
                   T[n].id \in FragmentIds(out)
            /\ \A k \in 1..Len(out.subTopics) :
                   \A t \in 1..Len(T) :
                       out.subTopics[k].id = T[t].id =>
                           Len(out.subTopics[k].properties) = Cardinality(DirectProps(t))

\* C1 amended: after the walk the output holds the root fragment, exactly
\* one fragment per sub-topic of root and exactly one per property; a
\* topic's properties list holds every property below that topic
\* (sub-processes and property sets get no fragment, their properties are
\* listed by the topic), and a property has an enum fragment exactly if it
\* has an enumeration, with one choice entry per choice.
C1_TreeFormComplete ==
    TreeDone =>
        LET out == TreeOut
            st  == SubTopics(T)
        IN  /\ out.id = Root.id
            /\ Len(out.subTopics) = Len(st)
            /\ \A k \in 1..Len(st) : Count(Ids(out.subTopics), T[st[k]].id) = 1
            /\ \A k \in 1..Len(out.subTopics) :
                   \A t \in 1..Len(T) :
                       out.subTopics[k].id = T[t].id =>
                           LET ps == out.subTopics[k].properties
                           IN  /\ Len(ps) = Cardinality(PropsOf(t))
                               /\ \A n \in PropsOf(t) : Count(Ids(ps), T[n].id) = 1
                               /\ \A i \in 1..Len(ps) : \A n \in PropsOf(t) :
                                      ps[i].id = T[n].id =>
                                          /\ ("enum" \in DOMAIN ps[i]) = (T[n].enum_choices > 0)
                                          /\ T[n].enum_choices > 0 =>
                                                 Len(ps[i].enum.choices) = T[n].enum_choices
            /\ \A n \in NodesOfKind(TYPE_KEY_SUBPROCESS) \cup NodesOfKind(TYPE_KEY_PROPERTY_SET) :
                   T[n].id \notin FragmentIds(out)

\* A finished Tree Form of a tree with a property under a sub-process and a
\* property with an enumeration.
C1_Witness ==
    /\ TreeDone
    /\ \E n \in NodesOfKind(TYPE_KEY_PROPERTY) :
           /\ T[T[n].parent].type_key = TYPE_KEY_SUBPROCESS
           /\ T[n].enum_choices = MaxChoices
           /\ T[n].id \in FragmentIds(TreeOut)

-----------------------------------------------------------------------------
(* C2 -- order preservation.                                               *)

\* C2: the entries of subTopics, properties and choices are in the
\* declaration order of the model nodes they stand for, and the graph nodes
\* under one parent are in the declaration order of their model nodes.
C2_OrderPreserved ==
    /\ TreeDone =>
           LET out == TreeOut
               st  == SubTopics(T)
           IN  /\ Ids(out.subTopics) = NodeIds(st)
               /\ \A k \in 1..Len(st) :
                      Ids(out.subTopics[k].properties) = NodeIds(SortedSeq(PropsOf(st[k])))
               /\ \A f \in PropertyFragments(out) :
                      "enum" \in DOMAIN f =>
                          \A j \in 1..Len(f.enum.choices) :
                              f.enum.choices[j].value = ChoiceValue(j)
    /\ gen = "mm" =>
           \A a \in DOMAIN nodes : \A b \in DOMAIN nodes :
               elems[nodes[a]].parent = elems[nodes[b]].parent /\ KeyLess(a, b)
                   => nodes[a] < nodes[b]

\* A finished run over a tree with two properties below one topic.
C2_Witness ==
    /\ Len(outputs) > 0
    /\ \E a \in NodesOfKind(TYPE_KEY_PROPERTY) : \E b \in NodesOfKind(TYPE_KEY_PROPERTY) :
           a < b /\ RootTopic(T, a) = RootTopic(T, b)

-----------------------------------------------------------------------------
(* C3 -- suppression.                                                      *)

NoGraphNodeFor(n) ==
    Ident(n) \notin DOMAIN nodes /\ GraphNodesNamed(T[n].name) = {}

\* C3 as stated: no graph node for an injected property or an inherited
\* property set, and the injected property is in the Tree Form with
\* isInjected: true.
C3_Original ==
    /\ gen = "mm" => \A n \in Suppressed : NoGraphNodeFor(n)
    /\ TreeDone =>
           \A n \in NodesOfKind(TYPE_KEY_PROPERTY) :
               T[n].was_injected =>
                   \E f \in PropertyFragments(TreeOut) :
                       /\ f.id = T[n].id
                       /\ "isInjected" \in DOMAIN f
                       /\ f.isInjected = TRUE

\* C3 amended: no graph node for an injected property or an inherited
\* property set at any time of the Graph Form run, and the injected
\* property is in the Tree Form with its flag under the key
\* is_cim_property: true.
C3_Suppression ==
    /\ gen = "mm" => \A n \in Suppressed : NoGraphNodeFor(n)
    /\ TreeDone =>
           \A n \in NodesOfKind(TYPE_KEY_PROPERTY) :
               T[n].was_injected =>
                   \E f \in PropertyFragments(TreeOut) :
                       /\ f.id = T[n].id
                       /\ "is_cim_property" \in DOMAIN f
                       /\ f.is_cim_property = TRUE

\* A finished Graph Form of a tree with an inherited property set that
\* holds an injected property.
C3_Witness ==
    /\ gen = "mm"
    /\ status = "parsed"
    /\ \E n \in NodesOfKind(TYPE_KEY_PROPERTY) :
           /\ T[n].was_injected
           /\ T[T[n].parent].type_key = TYPE_KEY_PROPERTY_SET
           /\ T[T[n].parent].are_cim_properties

-----------------------------------------------------------------------------
(* C4 -- the subtree of a suppressed node.                                 *)

\* The identities below a suppressed node: the members of an inherited
\* property set and the enum choices of an injected property.
BelowSuppressed ==
    {Ident(n) : n \in {c \in 1..Len(T) : T[c].parent \in Suppressed}}
    \cup {<<n, j>> : n \in {p \in Suppressed : T[p].enum_choices > 0}, j \in 1..MaxChoices}

\* C4: the enter event of a node below a suppressed node creates no graph
\* node, and the run does not fail on it.
C4_SuppressedSubtreeSkipped ==
    gen = "mm" =>
        /\ \A k \in BelowSuppressed : k \notin DOMAIN nodes
        /\ status = "failed" => <<CurEvent.node, CurEvent.choice>> \notin BelowSuppressed

-----------------------------------------------------------------------------
(* C5 -- the legend.                                                       *)

RootEntered == gen = "mm" /\ Ident(1) \in DOMAIN nodes

Legends == {e \in GraphNodesNamed(<<"LEGEND">>) : elems[e].parent = nodes[Ident(1)]}

LegendTexts(e) ==
    LET cs == GraphChildren(e)
    IN  [i \in 1..Len(cs) |-> elems[cs[i]].atts["TEXT"]]

\* C5 as stated: the legend has one child per entry of the configuration
\* table, model included.
C5_Original ==
    RootEntered =>
        /\ Cardinality(Legends) = 1
        /\ \A e \in Legends :
               LET texts == LegendTexts(e)
               IN  /\ Len(texts) = Cardinality(DOMAIN _CONFIG)
                   /\ \A k \in DOMAIN _CONFIG : Count(texts, <<k>>) = 1

\* C5 amended: after root enter there is one Legend section under the root
\* graph node, with exactly one child per mind-map section -- enum-choice,
\* grid, keyprops, process, property, property-set, realm, subprocess; the
\* configured kind model has none -- whatever the tree holds.
C5_LegendComplete ==
    RootEntered =>
        /\ Cardinality(Legends) = 1
        /\ \A e \in Legends :
               LET texts == LegendTexts(e)
               IN  /\ Len(texts) = 8
                   /\ \A k \in {"enum-choice", "grid", "keyprops", "process", "property",
                                "property-set", "realm", "subprocess"} :
                          Count(texts, <<k>>) = 1

\* The legend of a tree that is the root alone.
C5_Witness ==
    /\ RootEntered
    /\ Len(T) = 1
    /\ Cardinality(Legends) = 1

-----------------------------------------------------------------------------
(* C6 -- the change history.                                               *)

Histories == {e \in GraphNodesNamed(<<"CHANGE HISTORY">>) : elems[e].parent = nodes[Ident(1)]}

\* The notes blocks (richcontent elements) of an element.
NotesBlocks(e) ==
    {c \in 1..Len(elems) : elems[c].parent = e /\ elems[c].tag = "richcontent"}

\* C6: for a root with N change-history entries the Change History node has
\* N children in entry order, and the notes of child i list Version, Date,
\* Person, Comment, in that order, with the values of entry i.
C6_ChangeHistory ==
    RootEntered =>
        /\ Cardinality(Histories) = 1
        /\ \A e \in Histories :
               LET cs == GraphChildren(e)
                   h  == model.change_history
               IN  /\ Len(cs) = Len(h)
                   /\ \A i \in 1..Len(cs) :
                          /\ elems[cs[i]].atts["TEXT"] = h[i][1]
                          /\ Cardinality(NotesBlocks(cs[i])) = 1
                          /\ \A b \in NotesBlocks(cs[i]) :
                                 elems[b].notes =
                                     << <<"Version", h[i][1]>>, <<"Date", h[i][2]>>,
                                        <<"Person", h[i][3]>>, <<"Comment", h[i][4]>> >>

\* The graph of a root with MaxChanges entries, the first two different.
C6_Witness ==
    /\ RootEntered
    /\ Len(model.change_history) = MaxChanges
    /\ model.change_history[1] # model.change_history[2]
    /\ \E e \in Histories : Len(GraphChildren(e)) = MaxChanges

-----------------------------------------------------------------------------
(* C7 -- the label of a property.                                          *)

\* label(s_i) > ... > label(s_n)
RECURSIVE LabelFrom(_, _)
LabelFrom(segs, i) ==
    IF i > Len(segs) THEN <<>>
    ELSE IF i = Len(segs) THEN get_label(segs[i])
    ELSE get_label(segs[i]) \o <<" ", ">", " ">> \o LabelFrom(segs, i + 1)

\* The segments of a dotted id: they hold no dot and, joined by dots, give
\* the id back.
IsSegmentsOf(segs, id) ==
    /\ \A i \in 1..Len(segs) : \A j \in 1..Len(segs[i]) : segs[i][j] # "."
    /\ Join(segs, <<".">>) = id

CachedProperties ==
    UNION {{maps[t].properties[i] : i \in 1..Len(maps[t].properties)} :
             t \in {x \in DOMAIN maps : "properties" \in DOMAIN maps[x]}}

\* C7: the label of a property whose id has the segments s0.s1. ... .sn is
\* label(s3) > ... > label(sn): the first three segments are dropped and
\* the rest is label-formatted and joined in order.
C7_LabelDerivation ==
    \A f \in CachedProperties :
        LET segs == Split(f.id, ".")
        IN  /\ IsSegmentsOf(segs, f.id)
            /\ f.label = LabelFrom(segs, 4)

\* A cached property whose id is a.b.c.d.e with d and e different.
C7_Witness ==
    \E f \in CachedProperties :
        /\ Len(Split(f.id, ".")) = 5
        /\ Split(f.id, ".")[4] = <<"p", "_", "a">>
        /\ Split(f.id, ".")[5] = <<"a">>
        /\ f.label = <<"P", " ", "a", " ", ">", " ", "A">>

-----------------------------------------------------------------------------
(* C8 -- idempotence.                                                      *)

\* C8: every walk over the unchanged tree gives the output of the first.
C8_Idempotent == \A i \in 1..Len(outputs) : outputs[i] = outputs[1]

\* Two outputs of a tree that holds a property with an enumeration.
C8_Witness ==
    /\ Len(outputs) >= 2
    /\ \E n \in NodesOfKind(TYPE_KEY_PROPERTY) : T[n].enum_choices > 0

-----------------------------------------------------------------------------
(* C9 -- enum expansion in both forms.                                     *)

EnumProperties ==
    {n \in NodesOfKind(TYPE_KEY_PROPERTY) : ~T[n].was_injected /\ T[n].enum_choices > 0}

\* C9: for a non-injected property with an enumeration of k choices the
\* Tree Form fragment has an enum fragment with k choices and the enum's
\* is-open flag, and the property's graph node has exactly k child graph
\* nodes, one per choice.
C9_EnumExpansion ==
    /\ TreeDone =>
           \A n \in EnumProperties :
               \E f \in PropertyFragments(TreeOut) :
                   /\ f.id = T[n].id
                   /\ "enum" \in DOMAIN f
                   /\ Len(f.enum.choices) = T[n].enum_choices
                   /\ f.enum.is_open = T[n].enum_is_open
    /\ gen = "mm" /\ status = "parsed" =>
           \A n \in EnumProperties :
               /\ Ident(n) \in DOMAIN nodes
               /\ LET cs == GraphChildren(nodes[Ident(n)])
                  IN  /\ Len(cs) = T[n].enum_choices
                      /\ \A j \in 1..Len(cs) : elems[cs[j]].atts["TEXT"] = ChoiceValue(j)

\* The scenario: a finished Graph Form of a root with one topic that holds
\* one property with an open enum of MaxChoices choices.
C9_Witness ==
    /\ gen = "mm"
    /\ status = "parsed"
    /\ Len(T) = 3
    /\ 3 \in EnumProperties
    /\ T[3].enum_choices = MaxChoices
    /\ T[3].enum_is_open
    /\ Len(GraphChildren(nodes[Ident(3)])) = MaxChoices

-----------------------------------------------------------------------------
(* C10 -- a cache miss.                                                    *)

\* The handler of the current event needs a cached fragment that is absent.
CacheMiss ==
    /\ status = "running"
    /\ LET e  == CurEvent
           nd == T[e.node]
       IN  \/ /\ gen = "js"
              /\ e.ev = "property_parse"
              /\ RootTopic(T, e.node) \notin DOMAIN maps
           \/ /\ gen = "js"
              /\ e.ev = "root_parsed"
              /\ \E k \in 1..Len(SubTopics(T)) : SubTopics(T)[k] \notin DOMAIN maps
           \/ /\ gen = "mm"
              /\ \/ e.ev = "subprocess_parse"
                 \/ e.ev = "property_set_parse" /\ ~nd.are_cim_properties
                 \/ e.ev = "property_parse" /\ ~nd.was_injected
              /\ Ident(nd.parent) \notin DOMAIN nodes
           \/ /\ gen = "mm"
              /\ e.ev = "enum_choice_parse"
              /\ Ident(e.node) \notin DOMAIN nodes

\* C10: a handler that misses a cached fragment raises, and adds nothing to
\* the cache or to a fragment; a failed run takes no further step, so no
\* output is produced for it.
C10_CacheMissFatal ==
    [][/\ status # "failed"
       /\ CacheMiss =>
              /\ status' = "failed"
              /\ maps' = maps
              /\ nodes' = nodes
              /\ elems' = elems
              /\ outputs' = outputs
       /\ status' = "failed" => Len(outputs') < run']_vars

\* The Tree Form failed on a property whose root topic has no fragment.
C10_Witness ==
    /\ gen = "js"
    /\ status = "failed"
    /\ CurEvent.ev = "property_parse"
    /\ RootTopic(T, CurEvent.node) \notin DOMAIN maps

-----------------------------------------------------------------------------
(* C11 -- a kind key without a style record.                               *)

\* The elements that are graph nodes.
GraphNodes(es) == {e \in 1..Len(es) : es[e].tag = "node"}

\* The owner that the handler of the current event hands to _emit_node.
EmitOwner ==
    IF CurEvent.ev = "enum_choice_parse"
    THEN Choice(T[CurEvent.node], CurEvent.choice)
    ELSE T[CurEvent.node]

\* The Graph Form is about to enter an emitting node whose kind key has no
\* record in the configuration table.
StyleMiss ==
    /\ Running("mm")
    /\ CurEvent.ev # "root_parsed"
    /\ CurEvent.node \notin Suppressed
    /\ EmitOwner.type_key \notin DOMAIN _CONFIG

\* C11: when the Graph Form enters an emitting node whose kind key has no
\* style record the run fails and no graph node is created or cached for
\* it; the Tree Form of the same tree never fails.
C11_StyleMissFatal ==
    [][/\ StyleMiss =>
              /\ status' = "failed"
              /\ nodes' = nodes
              /\ GraphNodes(elems') = GraphNodes(elems)
       /\ gen' = "js" => status' # "failed"]_vars

\* The Graph Form failed on a root whose kind key is not configured: the
\* map element is there, no graph node is.
C11_Witness ==
    /\ gen = "mm"
    /\ status = "failed"
    /\ Root.type_key = UnconfiguredKey
    /\ mmap # 0
    /\ nodes = <<>>
    /\ GraphNodes(elems) = {}

-----------------------------------------------------------------------------
(* C12 -- the root's exit in the Tree Form.                                *)

\* The position of the root's exit event in the walk.
RootExitAt ==
    LET evs == Events(model)
    IN  CHOOSE i \in 1..Len(evs) : evs[i].ev = "root_parsed"

\* The enter event of every node comes before the root's exit event.
AllEnteredBeforeRootExit ==
    LET evs  == Events(model)
        exit == RootExitAt
    IN  \A n \in 1..Len(T) :
            \E i \in 1..(exit - 1) : evs[i].node = n /\ evs[i].choice = 0

\* C12: in the Tree Form the root's exit event comes after the enter event
\* of every node; when it is handled every sub-topic of root has a fragment
\* in the cache; until then the root's subTopics list is empty, and from
\* then on it holds the cached fragment of each sub-topic exactly once.
C12_RootExitLast ==
    gen = "js" =>
        LET st == SubTopics(T)
        IN  /\ AllEnteredBeforeRootExit
            /\ status = "running" /\ 1 \in DOMAIN maps => maps[1].subTopics = <<>>
            /\ status = "running" /\ pc = RootExitAt =>
                   \A k \in 1..Len(st) : st[k] \in DOMAIN maps
            /\ status = "parsed" =>
                   LET ids == Ids(maps[1].subTopics)
                   IN  /\ Len(maps[1].subTopics) = Len(st)
                       /\ \A k \in 1..Len(st) :
                              /\ maps[1].subTopics[k] = maps[st[k]]
                              /\ Count(ids, T[st[k]].id) = 1

\* The root's exit was handled for a root with two sub-topics, one of them
\* with a property in its subtree.
C12_Witness ==
    /\ gen = "js"
    /\ status = "parsed"
    /\ Len(SubTopics(T)) = 2
    /\ Len(maps[1].subTopics) = 2
    /\ \E k \in 1..2 : Len(maps[1].subTopics[k].properties) > 0

-----------------------------------------------------------------------------
(* C13 -- the parent's graph node exists before the child's.               *)

\* The identity of the model parent / owner of a cached identity: the
\* property for an enum choice, the parent node otherwise.
ParentKey(k) == IF k[2] > 0 THEN Ident(k[1]) ELSE Ident(T[k[1]].parent)

\* The identity that the current event's handler creates a graph node for.
CurKey == <<CurEvent.node, CurEvent.choice>>

\* The current event is the enter event of an emitting node below the root:
\* a topic, a sub-process, a property set that is not inherited, a property
\* that is not injected, or an enum choice.
EmittingEnter ==
    /\ Running("mm")
    /\ CurEvent.ev \notin {"root_parse", "root_parsed"}
    /\ CurEvent.choice > 0 \/ CurEvent.node \notin Suppressed

\* C13: at the enter event of every emitting node the graph node of its
\* parent / owner is in the node cache; every cached graph node is a direct
\* child of its parent's graph node; and the root's graph node is the only
\* child of the map element.
C13_ParentBeforeChild ==
    gen = "mm" =>
        /\ EmittingEnter => ParentKey(CurKey) \in DOMAIN nodes
        /\ \A k \in DOMAIN nodes :
               IF k = Ident(1)
               THEN elems[nodes[k]].parent = mmap
               ELSE /\ ParentKey(k) \in DOMAIN nodes
                    /\ elems[nodes[k]].parent = nodes[ParentKey(k)]
        /\ Ident(1) \in DOMAIN nodes =>
               {e \in 1..Len(elems) : elems[e].parent = mmap} = {nodes[Ident(1)]}

-----------------------------------------------------------------------------
(* C14 -- the Tree Form attaches a property, and nothing else changes.     *)

\* The Tree Form is about to handle a property's enter event.
PropertyEnter == Running("js") /\ CurEvent.ev = "property_parse"

\* C14: handling a property's enter event appends the property's fragment
\* as the last element of the properties list of the fragment cached for
\* the property's root topic; no cache entry is added, every other fragment
\* is unchanged, and the root topic's fragment is unchanged but for that
\* list.
C14_PropertyAttachFrame ==
    [][PropertyEnter =>
          LET n  == CurEvent.node
              rt == RootTopic(T, n)
          IN  /\ DOMAIN maps' = DOMAIN maps
              /\ rt \in DOMAIN maps
              /\ Len(maps'[rt].properties) = Len(maps[rt].properties) + 1
              /\ SubSeq(maps'[rt].properties, 1, Len(maps[rt].properties))
                     = maps[rt].properties
              /\ maps'[rt].properties[Len(maps'[rt].properties)] = PropertyFragment(T[n])
              /\ maps'[rt].properties[Len(maps'[rt].properties)].id = T[n].id
              /\ [maps'[rt] EXCEPT !.properties = maps[rt].properties] = maps[rt]
              /\ \A k \in DOMAIN maps \ {rt} : maps'[k] = maps[k]
              /\ outputs' = outputs]_vars

\* A property's enter event was just handled while the fragment of another
\* topic is cached as well.
C14_Witness ==
    /\ gen = "js"
    /\ status = "running"
    /\ pc > 1
    /\ Events(model)[pc - 1].ev = "property_parse"
    /\ LET rt == RootTopic(T, Events(model)[pc - 1].node)
       IN  /\ Len(maps[rt].properties) > 0
           /\ \E k \in DOMAIN maps \ {1, rt} : maps[k].properties = <<>>

-----------------------------------------------------------------------------
(* C15 -- the decoration of a graph node.                                  *)

\* The font sub-elements of an element.
Fonts(e) == {c \in 1..Len(elems) : elems[c].parent = e /\ elems[c].tag = "font"}

\* The kind key of the node a cached identity stands for.
KindOf(k) == IF k[2] > 0 THEN TYPE_KEY_ENUM_CHOICE ELSE T[k[1]].type_key

\* C15: the graph node created for an entered node carries exactly one font
\* sub-element, with the bold, name and size of its kind's style record,
\* and exactly one notes block.
C15_Decoration ==
    gen = "mm" =>
        \A k \in DOMAIN nodes :
            /\ Cardinality(Fonts(nodes[k])) = 1
            /\ \A f \in Fonts(nodes[k]) :
                   /\ elems[f].atts["BOLD"] = _CONFIG[KindOf(k)]["font-bold"]
                   /\ elems[f].atts["NAME"] = _CONFIG[KindOf(k)]["font-name"]
                   /\ elems[f].atts["SIZE"] = _CONFIG[KindOf(k)]["font-size"]
            /\ Cardinality(NotesBlocks(nodes[k])) = 1

-----------------------------------------------------------------------------
(* C16 -- the optional URL.                                                *)

\* The owner that a cached identity stands for.
OwnerOf(k) == IF k[2] > 0 THEN Choice(T[k[1]], k[2]) ELSE T[k[1]]

\* The attributes of a graph node that do not depend on the URL.
PlainAtts(k) ==
    LET cfg == _CONFIG[KindOf(k)]
    IN  [x \in {"FOLDED", "COLOR", "BACKGROUND_COLOR", "STYLE", "TEXT"} |->
            CASE x = "FOLDED"           -> Lower(cfg["is-collapsed"])
              [] x = "COLOR"            -> cfg["font-color"]
              [] x = "BACKGROUND_COLOR" -> cfg["bg-color"]
              [] x = "STYLE"            -> IF k = Ident(1) THEN <<"fork">> ELSE <<"bubble">>
              [] OTHER                  -> IF k[2] > 0 THEN ChoiceValue(k[2])
                                           ELSE T[k[1]].name]

\* C16: the graph node of a node that exposes a URL carries a LINK
\* attribute equal to that URL; the graph node of a node without a URL has
\* no LINK attribute; in both cases the other attributes are the same; and
\* a run over nodes without a URL fails on no event but the enter of a
\* choice of an injected property, where it fails with URLs as well.
C16_OptionalUrl ==
    gen = "mm" =>
        /\ \A k \in DOMAIN nodes :
               LET atts == elems[nodes[k]].atts
               IN  /\ model.urls => "LINK" \in DOMAIN atts /\ atts["LINK"] = Url(OwnerOf(k))
                   /\ ~model.urls => "LINK" \notin DOMAIN atts
                   /\ [x \in DOMAIN atts \ {"LINK"} |-> atts[x]] = PlainAtts(k)
        /\ status = "failed" =>
               /\ CurEvent.ev = "enum_choice_parse"
               /\ CurEvent.node \in Suppressed

\* A finished Graph Form of a tree whose nodes expose no URL: a property
\* with an enumeration has its graph node and the graph nodes of its
\* choices, none with a LINK.
C16_Witness ==
    /\ gen = "mm"
    /\ status = "parsed"
    /\ ~model.urls
    /\ \E n \in EnumProperties :
           /\ Ident(n) \in DOMAIN nodes
           /\ <<n, 1>> \in DOMAIN nodes
    /\ \A k \in DOMAIN nodes : "LINK" \notin DOMAIN elems[nodes[k]].atts

====
